---------------------------- MODULE Spec2Model ----------------------------
(***************************************************************************)
(* A model of the preschool directory: PreschoolApp (catalog, filtered     *)
(* view, comparison set, debounced search) and GeolocationService          *)
(* (one-shot location request, proximity query, location watch).           *)
(*                                                                         *)
(* Facilities are JavaScript objects shared by reference between           *)
(* this.preschools, this.filteredPreschools and this.selectedPreschools:   *)
(* a reference is modelled as the facility's index in the catalog, and the *)
(* one field the program writes after load (preschool.distance) as the     *)
(* variable distance, a function of that index.                            *)
(*                                                                         *)
(* Strings are sequences of one-character strings, so that trim,           *)
(* toLowerCase and includes are computed and not assumed.                  *)
(***************************************************************************)
EXTENDS Integers, Sequences, FiniteSets, TLC

\* A value that may be absent (undefined or null in the program) is a sequence
\* of length 0 or 1.
None == << >>
Some(x) == << x >>
\* find's result when nothing matches.
NoRef == 0

\* ------------------------------------------------------------------ data

\* window.allSchoolsData: the externally supplied catalog.  Coordinates are in
\* units of 0.05 degree; facility 4 has no coordinates, facility 5 lies on
\* longitude 0 (a coordinate that is present and falsy in JavaScript).
allSchoolsData ==
  << [id |-> "p1", Namn |-> <<"A","b">>, Kommun |-> <<"A">>, Huvudman |-> "Kommunal",
      Adress |-> Some(<<"b"," ","a">>), Latitud |-> Some(1), Longitud |-> Some(1)],
     [id |-> "p2", Namn |-> <<"B","a">>, Kommun |-> <<"B">>, Huvudman |-> "Enskild",
      Adress |-> None, Latitud |-> Some(1), Longitud |-> Some(2)],
     [id |-> "p3", Namn |-> <<"a","a">>, Kommun |-> <<"A">>, Huvudman |-> "Enskild",
      Adress |-> Some(<<"B","b">>), Latitud |-> Some(2), Longitud |-> Some(1)],
     [id |-> "p4", Namn |-> <<"B">>, Kommun |-> <<"B">>, Huvudman |-> "Kommunal",
      Adress |-> Some(<< >>), Latitud |-> None, Longitud |-> None],
     [id |-> "p5", Namn |-> <<"b","b">>, Kommun |-> <<"A">>, Huvudman |-> "Kommunal",
      Adress |-> None, Latitud |-> Some(1), Longitud |-> Some(0)],
     [id |-> "p6", Namn |-> <<"a","B">>, Kommun |-> <<"B">>, Huvudman |-> "Enskild",
      Adress |-> Some(<<"a">>), Latitud |-> Some(2), Longitud |-> Some(2)] >>

\* this.preschools after loadData: the catalog, never reassigned afterwards.
preschools == allSchoolsData

Refs == 1..Len(preschools)

\* [...this.preschools]: every facility, in catalog order.
AllRefs == [i \in 1..Len(preschools) |-> i]

\* The ids a caller may pass: every catalog id and one that is in no facility.
Ids == {preschools[i].id : i \in Refs} \cup {"p0"}

VARIABLES
  catalog,              \* app.preschools: the array, as the references it holds
  filteredPreschools,   \* app.filteredPreschools: sequence of references
  selectedPreschools,   \* app.selectedPreschools: sequence of references
  distance,             \* preschool.distance of every catalog object
  map,                  \* app.map is set (TRUE) or still null (FALSE)
  searchInput,          \* #search-input .value
  municipalityFilter,   \* #municipality-filter .value
  typeFilter,           \* #type-filter .value
  timeout,              \* debounce's closure variable: a timer id, 0 while undefined
  timers,               \* the platform's pending timers
  keys,                 \* input events so far (also the last timer id given out)
  userLocation,         \* geo.userLocation: None or Some([lat, lng])
  watchId,              \* geo.watchId
  watches,              \* the platform's active watch subscriptions
  nextWatchId,          \* the id the platform hands out next
  pending,              \* one-shot platform requests not yet answered
  issued,               \* one-shot platform requests issued so far
  geolocation,          \* navigator.geolocation exists
  lastQuery,            \* history: the query of the most recent performSearch
  bursts,               \* history: input events that found no timer pending
  fires,                \* history: debounced invocations that ran
  lastOp                \* history: the operation that made the last step

vars == << catalog, filteredPreschools, selectedPreschools, distance, map, searchInput,
           municipalityFilter, typeFilter, timeout, timers, keys, userLocation,
           watchId, watches, nextWatchId, pending, issued, geolocation,
           lastQuery, bursts, fires, lastOp >>

appVars == << catalog, filteredPreschools, selectedPreschools, distance >>
domVars == << searchInput, municipalityFilter, typeFilter >>
timerVars == << timeout, timers, keys, bursts, fires >>
geoVars == << userLocation, watchId, watches, nextWatchId, pending, issued >>
envVars == << map, geolocation >>

\* ------------------------------------------------------------------ load

\* loadData(): this.preschools is the page's array, the filtered view a copy
\* of it.  The constructor's init() runs it first; a script may call it again.
LoadData ==
  /\ catalog' = AllRefs
  /\ filteredPreschools' = catalog'
  /\ lastOp' = [op |-> "loadData"]
  /\ UNCHANGED << selectedPreschools, distance, domVars, timerVars, geoVars, envVars,
                  lastQuery >>

\* ------------------------------------------------------------ comparison

\* this.preschools.find(p => p.id === preschoolId): the first match, or NoRef.
FindById(preschoolId) ==
  IF \E i \in Refs : preschools[i].id = preschoolId
    THEN CHOOSE i \in Refs :
           /\ preschools[i].id = preschoolId
           /\ \A j \in Refs : preschools[j].id = preschoolId => i <= j
    ELSE NoRef

\* this.selectedPreschools.find(p => p.id === preschoolId) is truthy.
IsSelected(sel, preschoolId) ==
  \E k \in 1..Len(sel) : preschools[sel[k]].id = preschoolId

\* A capacity test that lets the sixth facility in.
addToComparisonOffByOne(sel, preschoolId) ==
  LET preschool == FindById(preschoolId) IN
  IF preschool # NoRef /\ Len(sel) <= 5 /\ ~IsSelected(sel, preschoolId)
    THEN Append(sel, preschool)
    ELSE sel

\* An add that does not look for the id in the set.
addToComparisonNoLookup(sel, preschoolId) ==
  LET preschool == FindById(preschoolId) IN
  IF preschool # NoRef /\ Len(sel) < 5
    THEN Append(sel, preschool)
    ELSE sel

\* The comparison set after addToComparison(preschoolId).
addToComparison(sel, preschoolId) ==
  LET preschool == FindById(preschoolId) IN
  IF preschool # NoRef /\ Len(sel) < 5
    THEN IF ~IsSelected(sel, preschoolId)
           THEN Append(sel, preschool)
           ELSE sel
    ELSE sel

\* The comparison set after removeFromComparison(preschoolId).
removeFromComparison(sel, preschoolId) ==
  LET Keep(r) == preschools[r].id # preschoolId IN SelectSeq(sel, Keep)

AddToComparison(preschoolId) ==
  /\ selectedPreschools' = addToComparison(selectedPreschools, preschoolId)
  /\ lastOp' = [op |-> "addToComparison", id |-> preschoolId]
  /\ UNCHANGED << catalog, filteredPreschools, distance, domVars, timerVars, geoVars,
                  envVars, lastQuery >>

RemoveFromComparison(preschoolId) ==
  /\ selectedPreschools' = removeFromComparison(selectedPreschools, preschoolId)
  /\ lastOp' = [op |-> "removeFromComparison", id |-> preschoolId]
  /\ UNCHANGED << catalog, filteredPreschools, distance, domVars, timerVars, geoVars,
                  envVars, lastQuery >>

\* --------------------------------------------------------------- strings

\* String.prototype.toLowerCase, on the alphabet of the catalog and queries.
ToLowerChar(c) ==
  CASE c = "A" -> "a"
    [] c = "B" -> "b"
    [] OTHER -> c

ToLowerCase(s) == [i \in 1..Len(s) |-> ToLowerChar(s[i])]

RECURSIVE TrimStart(_)
TrimStart(s) ==
  IF s # << >> /\ Head(s) = " " THEN TrimStart(Tail(s)) ELSE s

RECURSIVE TrimEnd(_)
TrimEnd(s) ==
  IF s # << >> /\ s[Len(s)] = " " THEN TrimEnd(SubSeq(s, 1, Len(s) - 1)) ELSE s

\* String.prototype.trim
Trim(s) == TrimEnd(TrimStart(s))

\* String.prototype.includes: t occurs in s as a substring.
Includes(s, t) ==
  \E i \in 0..(Len(s) - Len(t)) : SubSeq(s, i + 1, i + Len(t)) = t

\* The texts typed into the search box or passed to performSearch.
Queries ==
  { << >>, <<" ">>, <<"a">>, <<"B"," ">>, <<" ","a","B">>, <<"b"," ","a">>, <<"c">> }

\* The options of the two dropdowns; the first of each is "no filter".
MunicipalityOptions == { << >>, <<"A">>, <<"B">> }
TypeOptions == { "", "Kommunal", "Enskild" }

\* ---------------------------------------------------- search and filters

\* The predicate of performSearch's filter.
MatchesSearch(r, searchTerm) ==
  LET preschool == preschools[r] IN
  \/ Includes(ToLowerCase(preschool.Namn), searchTerm)
  \/ Includes(ToLowerCase(preschool.Kommun), searchTerm)
  \/ /\ preschool.Adress # None
     /\ preschool.Adress[1] # << >>
     /\ Includes(ToLowerCase(preschool.Adress[1]), searchTerm)

\* performSearch's assignment to this.filteredPreschools, before applyFilters.
SearchResult(query) ==
  IF Trim(query) = << >>
    THEN AllRefs
    ELSE LET searchTerm == Trim(ToLowerCase(query))
             Hit(r) == MatchesSearch(r, searchTerm)
         IN SelectSeq(AllRefs, Hit)

\* applyFilters' two filter passes over a view.
FilterView(view, municipality, type) ==
  LET InKommun(r) == preschools[r].Kommun = municipality
      OfType(r) == preschools[r].Huvudman = type
      byMunicipality == IF municipality # << >> THEN SelectSeq(view, InKommun) ELSE view
  IN IF type # "" THEN SelectSeq(byMunicipality, OfType) ELSE byMunicipality

\* A search that narrows the view it finds instead of the catalog.
performSearchNarrowing(view, query, municipality, type) ==
  LET searchTerm == Trim(ToLowerCase(query))
      Hit(r) == MatchesSearch(r, searchTerm)
  IN FilterView(IF Trim(query) = << >> THEN view ELSE SelectSeq(view, Hit),
                municipality, type)

\* The filtered view after performSearch(query): the search over the catalog,
\* then applyFilters with the dropdowns' values.  The view it finds is not read.
performSearch(view, query, municipality, type) ==
  FilterView(SearchResult(query), municipality, type)

\* The filtered view after applyFilters(): the view it finds, filtered.
applyFilters(view, municipality, type) ==
  FilterView(view, municipality, type)

\* performSearch(query), called by a script or by a listener.
PerformSearch(query) ==
  /\ filteredPreschools' =
       performSearch(filteredPreschools, query, municipalityFilter, typeFilter)
  /\ lastQuery' = query
  /\ lastOp' = [op |-> "performSearch", query |-> query]
  /\ UNCHANGED << catalog, selectedPreschools, distance, domVars, timerVars, geoVars,
                  envVars >>

\* The user picks another municipality: the change listener runs applyFilters.
ChangeMunicipality(value) ==
  /\ value # municipalityFilter
  /\ municipalityFilter' = value
  /\ filteredPreschools' = applyFilters(filteredPreschools, value, typeFilter)
  /\ lastOp' = [op |-> "changeMunicipality", value |-> value]
  /\ UNCHANGED << catalog, selectedPreschools, distance, searchInput, typeFilter, timerVars,
                  geoVars, envVars, lastQuery >>

\* The user picks another operator type: the change listener runs applyFilters.
ChangeType(value) ==
  /\ value # typeFilter
  /\ typeFilter' = value
  /\ filteredPreschools' = applyFilters(filteredPreschools, municipalityFilter, value)
  /\ lastOp' = [op |-> "changeType", value |-> value]
  /\ UNCHANGED << catalog, selectedPreschools, distance, searchInput, municipalityFilter,
                  timerVars, geoVars, envVars, lastQuery >>

\* ------------------------------------------------------------ geolocation

\* Bounds of the model: one-shot requests issued, watches started.
MaxRequests == 2
MaxWatches == 3

\* The positions the platform may report, in units of 0.05 degree.
Positions == { [lat |-> 1, lng |-> 1], [lat |-> 2, lng |-> 2], [lat |-> 0, lng |-> 1] }

\* The radii findNearbyPreschools is called with, in km; 10 is its default.
Radii == { -1, 0, 6, 10, 13 }

\* The platform's failures of a one-shot request.
ErrorKinds == { "PERMISSION_DENIED", "POSITION_UNAVAILABLE", "TIMEOUT" }

Abs(x) == IF x < 0 THEN -x ELSE x

\* The haversine distance in km, rounded up to a whole km, between points of
\* the 0.05-degree grid next to (0, 0), by the difference in latitude (row)
\* and in longitude (column): 0.05 degree is 5.56 km, the diagonal 7.86 km,
\* 0.10 degree 11.12 km, and so on.  Against a whole radius, d <= r exactly
\* when the rounded-up d <= r.
HaversineKm ==
  << << 0, 6, 12 >>,
     << 6, 8, 13 >>,
     << 12, 13, 16 >> >>

calculateDistance(lat1, lon1, lat2, lon2) ==
  HaversineKm[Abs(lat2 - lat1) + 1][Abs(lon2 - lon1) + 1]

\* JavaScript's truthiness of an optional number: undefined, null and 0 are falsy.
Truthy(c) == c # None /\ c[1] # 0

\* Negation of findNearbyPreschools' first test: both coordinates are truthy.
HasCoordinates(r) ==
  Truthy(preschools[r].Latitud) /\ Truthy(preschools[r].Longitud)

\* The distance findNearbyPreschools computes for facility r.
DistanceFrom(loc, r) ==
  calculateDistance(loc.lat, loc.lng, preschools[r].Latitud[1], preschools[r].Longitud[1])

\* preschool.distance of every facility once the filter callback has run over
\* the catalog: written for each facility that has coordinates, in or out of
\* the radius.
DistancesAfter(dist, loc) ==
  [r \in Refs |-> IF HasCoordinates(r) THEN Some(DistanceFrom(loc, r)) ELSE dist[r]]

\* An insertion that puts x before the entries at the same distance.
RECURSIVE InsertBeforeEqual(_, _, _)
InsertBeforeEqual(x, sorted, dist) ==
  IF sorted = << >> THEN << x >>
  ELSE IF dist[Head(sorted)][1] - dist[x][1] < 0
         THEN << Head(sorted) >> \o InsertBeforeEqual(x, Tail(sorted), dist)
         ELSE << x >> \o sorted

\* x put into a sorted sequence behind every entry that is not farther.
RECURSIVE InsertByDistance(_, _, _)
InsertByDistance(x, sorted, dist) ==
  IF sorted = << >> THEN << x >>
  ELSE IF dist[Head(sorted)][1] - dist[x][1] <= 0
         THEN << Head(sorted) >> \o InsertByDistance(x, Tail(sorted), dist)
         ELSE << x >> \o sorted

\* nearby.sort((a, b) => a.distance - b.distance): Array.prototype.sort is
\* stable, so entries the comparator calls equal keep their order.
RECURSIVE SortByDistance(_, _)
SortByDistance(seq, dist) ==
  IF seq = << >> THEN << >>
  ELSE InsertByDistance(seq[Len(seq)], SortByDistance(SubSeq(seq, 1, Len(seq) - 1), dist), dist)

\* The array findNearbyPreschools assigns to app.filteredPreschools.
nearby(loc, radius) ==
  LET Near(r) == HasCoordinates(r) /\ DistanceFrom(loc, r) <= radius
  IN SortByDistance(SelectSeq(AllRefs, Near), DistancesAfter([r \in Refs |-> None], loc))

\* A proximity query that sorts the catalog array itself: the facilities that
\* have a distance come first, by distance, the others keep their order behind.
preschoolsSortedInPlace(cat, dist) ==
  LET Has(r) == dist[r] # None
      HasNot(r) == dist[r] = None
  IN SortByDistance(SelectSeq(cat, Has), dist) \o SelectSeq(cat, HasNot)

\* app.preschools once findNearbyPreschools has returned: filter builds a new
\* array and sort works on that one, so the catalog array keeps every entry
\* in its place.
preschoolsAfterNearby(cat, dist) == cat

\* The effect of findNearbyPreschools(radius) with the location loc.
FindNearbyEffect(loc, radius) ==
  /\ distance' = DistancesAfter(distance, loc)
  /\ catalog' = preschoolsAfterNearby(catalog, DistancesAfter(distance, loc))
  /\ filteredPreschools' = nearby(loc, radius)

\* findNearbyPreschools(radius), called by a script; it returns at once while
\* no location is known.
FindNearbyPreschools(radius) ==
  /\ IF userLocation = None
       THEN UNCHANGED << catalog, filteredPreschools, distance >>
       ELSE FindNearbyEffect(userLocation[1], radius)
  /\ lastOp' = [op |-> "findNearbyPreschools", radius |-> radius,
                ran |-> userLocation # None]
  /\ UNCHANGED << selectedPreschools, domVars, timerVars, geoVars, envVars, lastQuery >>

\* A click on the location button: requestLocation up to its await.  Without
\* navigator.geolocation the promise is rejected at once and the catch block
\* runs before any other handler.
RequestLocation ==
  /\ IF geolocation
       THEN /\ issued < MaxRequests
            /\ issued' = issued + 1
            /\ pending' = pending + 1
            /\ lastOp' = [op |-> "requestLocation"]
       ELSE /\ UNCHANGED << issued, pending >>
            /\ lastOp' = [op |-> "locationError", kind |-> "UNSUPPORTED"]
  /\ UNCHANGED << appVars, domVars, timerVars, userLocation, watchId, watches,
                  nextWatchId, envVars, lastQuery >>

\* The platform answers a one-shot request with a position: requestLocation
\* resumes, stores the location and, when the map exists, runs the proximity
\* query with the default radius.  The accuracy it stores is read nowhere, and
\* setView and addUserMarker write to the map only; neither is modelled.
LocationSuccess(position) ==
  /\ pending > 0
  /\ pending' = pending - 1
  /\ userLocation' = Some(position)
  /\ IF map
       THEN FindNearbyEffect(position, 10)
       ELSE UNCHANGED << catalog, filteredPreschools, distance >>
  /\ lastOp' = [op |-> "locationSuccess", position |-> position]
  /\ UNCHANGED << selectedPreschools, domVars, timerVars, watchId, watches,
                  nextWatchId, issued, envVars, lastQuery >>

\* A catch block that asks the platform again.
LocationErrorRetry(kind) ==
  /\ pending > 0
  /\ issued' = issued + 1
  /\ lastOp' = [op |-> "locationError", kind |-> kind]
  /\ UNCHANGED << appVars, domVars, timerVars, userLocation, watchId, watches,
                  nextWatchId, pending, envVars, lastQuery >>

\* The platform answers a one-shot request with an error: requestLocation's
\* catch block runs showLocationError, which writes to the page only.
LocationError(kind) ==
  /\ pending > 0
  /\ pending' = pending - 1
  /\ lastOp' = [op |-> "locationError", kind |-> kind]
  /\ UNCHANGED << appVars, domVars, timerVars, userLocation, watchId, watches,
                  nextWatchId, issued, envVars, lastQuery >>

\* watchPosition(): the platform adds a subscription and its id replaces the
\* one the service held.
WatchPosition ==
  /\ IF geolocation
       THEN /\ nextWatchId <= MaxWatches
            /\ watches' = watches \cup {nextWatchId}
            /\ watchId' = Some(nextWatchId)
            /\ nextWatchId' = nextWatchId + 1
       ELSE UNCHANGED << watches, watchId, nextWatchId >>
  /\ lastOp' = [op |-> "watchPosition"]
  /\ UNCHANGED << appVars, domVars, timerVars, userLocation, pending, issued,
                  envVars, lastQuery >>

\* The platform reports a position to an active subscription: the success
\* callback of watchPosition stores it.
WatchUpdate(id, position) ==
  /\ id \in watches
  /\ userLocation' = Some(position)
  /\ lastOp' = [op |-> "watchUpdate", id |-> id, position |-> position]
  /\ UNCHANGED << appVars, domVars, timerVars, watchId, watches, nextWatchId,
                  pending, issued, envVars, lastQuery >>

\* stopWatching(): clearWatch on the id the service holds.
StopWatching ==
  /\ IF watchId # None
       THEN /\ watches' = watches \ {watchId[1]}
            /\ watchId' = None
       ELSE UNCHANGED << watches, watchId >>
  /\ lastOp' = [op |-> "stopWatching"]
  /\ UNCHANGED << appVars, domVars, timerVars, userLocation, nextWatchId, pending,
                  issued, envVars, lastQuery >>

\* --------------------------------------------------------------- debounce

\* The quiet period initSearch passes to debounce, in ms.
DebounceWait == 300
\* Bounds of the model: the input events of a run, and the ms one tick of the
\* clock advances.
MaxKeys == 3
TickMs == 100

Min(a, b) == IF a < b THEN a ELSE b

\* A debounced call that sets its timer without clearing the one pending.
executedFunctionNoClear(pendingTimers, held, id, wait) ==
  pendingTimers \cup { [id |-> id, wait |-> wait, elapsed |-> 0] }

\* The platform's timers after a call of debounce's executedFunction:
\* clearTimeout(timeout), then setTimeout(later, wait), which returns id.
executedFunction(pendingTimers, held, id, wait) ==
  { t \in pendingTimers : t.id # held } \cup { [id |-> id, wait |-> wait, elapsed |-> 0] }

\* An input event on the search box: its value is now text, and the debounced
\* listener is called.
InputEvent(text) ==
  /\ keys < MaxKeys
  /\ text # searchInput
  /\ searchInput' = text
  /\ keys' = keys + 1
  /\ timers' = executedFunction(timers, timeout, keys + 1, DebounceWait)
  /\ timeout' = keys + 1
  /\ bursts' = IF timers = {} THEN bursts + 1 ELSE bursts
  /\ lastOp' = [op |-> "input", id |-> keys + 1]
  /\ UNCHANGED << appVars, municipalityFilter, typeFilter, fires, geoVars, envVars,
                  lastQuery >>

\* Time passes while no timer is due.
Tick ==
  /\ timers # {}
  /\ \A t \in timers : t.elapsed < t.wait
  /\ timers' = { [t EXCEPT !.elapsed = Min(t.elapsed + TickMs, t.wait)] : t \in timers }
  /\ lastOp' = [op |-> "tick"]
  /\ UNCHANGED << appVars, domVars, timeout, keys, bursts, fires, geoVars, envVars,
                  lastQuery >>

\* A due timer runs debounce's later: clearTimeout(timeout), then the listener
\* of initSearch, which reads the box's value and calls performSearch.
Later(t) ==
  /\ t \in timers
  /\ t.elapsed >= t.wait
  /\ timers' = { u \in timers \ {t} : u.id # timeout }
  /\ filteredPreschools' =
       performSearch(filteredPreschools, searchInput, municipalityFilter, typeFilter)
  /\ lastQuery' = searchInput
  /\ fires' = fires + 1
  /\ lastOp' = [op |-> "later", id |-> t.id, elapsed |-> t.elapsed, query |-> searchInput]
  /\ UNCHANGED << catalog, selectedPreschools, distance, domVars, timeout, keys, bursts,
                  geoVars, envVars >>

\* A click on the search button: performSearch with the box's value.
SearchButtonClick == PerformSearch(searchInput)

\* Enter pressed in the search box: performSearch with the box's value.
EnterKeypress == PerformSearch(searchInput)

\* ------------------------------------------------------------------ init

\* The state once the constructors and init() have run: the catalog loaded and
\* shown whole, nothing selected, no location, no watch, no timer.  Whether the
\* map library and the platform's geolocation exist is the environment's choice.
Init ==
  /\ catalog = AllRefs
  /\ filteredPreschools = AllRefs
  /\ selectedPreschools = << >>
  /\ distance = [i \in Refs |-> None]
  /\ map \in BOOLEAN
  /\ searchInput = << >>
  /\ municipalityFilter = << >>
  /\ typeFilter = ""
  /\ timeout = 0
  /\ timers = {}
  /\ keys = 0
  /\ userLocation = None
  /\ watchId = None
  /\ watches = {}
  /\ nextWatchId = 1
  /\ pending = 0
  /\ issued = 0
  /\ geolocation \in BOOLEAN
  /\ lastQuery = << >>
  /\ bursts = 0
  /\ fires = 0
  /\ lastOp = [op |-> "init"]

\* ----------------------------------------------------------------- specs

NextComparison ==
  \/ \E id \in Ids : AddToComparison(id)
  \/ \E id \in Ids : RemoveFromComparison(id)

SpecComparison == Init /\ [][NextComparison]_vars

NextFilter ==
  \/ \E q \in Queries : PerformSearch(q)
  \/ \E m \in MunicipalityOptions : ChangeMunicipality(m)
  \/ \E t \in TypeOptions : ChangeType(t)

SpecFilter == Init /\ [][NextFilter]_vars

NextDebounce ==
  \/ \E q \in Queries : InputEvent(q)
  \/ Tick
  \/ \E t \in timers : Later(t)
  \/ SearchButtonClick
  \/ EnterKeypress

SpecDebounce == Init /\ [][NextDebounce]_vars

\* The ids offered to the comparison set while the location service runs.
FewIds == { "p1", "p4", "p0" }

NextLocation ==
  \/ WatchPosition
  \/ StopWatching
  \/ \E id \in 1..MaxWatches, p \in Positions : WatchUpdate(id, p)
  \/ RequestLocation
  \/ \E p \in Positions : LocationSuccess(p)
  \/ \E k \in ErrorKinds : LocationError(k)
  \/ \E id \in FewIds : AddToComparison(id)
  \/ \E id \in FewIds : RemoveFromComparison(id)

SpecLocation == Init /\ [][NextLocation]_vars

NextGeo ==
  \/ RequestLocation
  \/ \E p \in Positions : LocationSuccess(p)
  \/ \E k \in ErrorKinds : LocationError(k)
  \/ \E r \in Radii : FindNearbyPreschools(r)
  \/ \E q \in Queries : PerformSearch(q)
  \/ \E m \in MunicipalityOptions : ChangeMunicipality(m)
  \/ \E t \in TypeOptions : ChangeType(t)

SpecGeo == Init /\ [][NextGeo]_vars

\* The texts searched for while the catalog is looked after.
FewQueries == { << >>, <<"c">> }
\* The radii asked for while the catalog is looked after.
FewRadii == { 0, 10 }
\* The ids offered to the comparison set meanwhile: a facility without
\* coordinates and an id that is in no facility.
TwoIds == { "p4", "p0" }

NextCatalog ==
  \/ LoadData
  \/ \E q \in FewQueries : PerformSearch(q)
  \/ \E m \in MunicipalityOptions : ChangeMunicipality(m)
  \/ \E t \in TypeOptions : ChangeType(t)
  \/ RequestLocation
  \/ \E p \in Positions : LocationSuccess(p)
  \/ \E r \in FewRadii : FindNearbyPreschools(r)
  \/ \E id \in TwoIds : AddToComparison(id)
  \/ \E id \in TwoIds : RemoveFromComparison(id)

SpecCatalog == Init /\ [][NextCatalog]_vars

\* Every operation of the two classes.  The specifications above each take the
\* operations of one concern, with the variables the others write left alone:
\* the comparison set is written by AddToComparison and RemoveFromComparison
\* only, the timers by the debounce actions only, the watches by the watch
\* actions only.
Next ==
  \/ NextComparison
  \/ NextFilter
  \/ NextDebounce
  \/ NextLocation
  \/ NextGeo
  \/ NextCatalog

Spec == Init /\ [][Next]_vars

\* ---------------------------------------------------------------- claims

NoDuplicateIds(sel) ==
  \A j, k \in 1..Len(sel) : preschools[sel[j]].id = preschools[sel[k]].id => j = k

\* C1: after any sequence of addToComparison and removeFromComparison calls the
\* comparison set holds at most 5 facilities, and an addToComparison of a
\* catalog id that is not in the set, made while the set holds 5, leaves the
\* set as it was.
C1_AtMostFive ==
  /\ [](Len(selectedPreschools) <= 5)
  /\ [][ ( /\ lastOp'.op = "addToComparison"
           /\ Len(selectedPreschools) = 5
           /\ FindById(lastOp'.id) # NoRef
           /\ ~IsSelected(selectedPreschools, lastOp'.id) )
         => selectedPreschools' = selectedPreschools ]_vars

\* C1's case: a sixth distinct catalog id was offered to a full set.
C1_Witness ==
  /\ lastOp.op = "addToComparison"
  /\ Len(selectedPreschools) = 5
  /\ FindById(lastOp.id) # NoRef
  /\ ~IsSelected(selectedPreschools, lastOp.id)

\* C2: the comparison set never holds two entries with the same id, and an
\* addToComparison of an id that is already in the set leaves members and
\* order as they were.
C2_NoDuplicates ==
  /\ [](NoDuplicateIds(selectedPreschools))
  /\ [][ ( /\ lastOp'.op = "addToComparison"
           /\ IsSelected(selectedPreschools, lastOp'.id) )
         => selectedPreschools' = selectedPreschools ]_vars

\* C2's case: an id that is in the set, and is not its last entry, was added
\* again while the set had room.
C2_Witness ==
  /\ lastOp.op = "addToComparison"
  /\ IsSelected(selectedPreschools, lastOp.id)
  /\ Len(selectedPreschools) >= 2
  /\ Len(selectedPreschools) < 5
  /\ preschools[selectedPreschools[Len(selectedPreschools)]].id # lastOp.id

\* The facilities that match a search text and pass two filter values, in
\* catalog order.
Matching(query, municipality, type) ==
  LET Pass(r) ==
        /\ \/ Trim(query) = << >>
           \/ MatchesSearch(r, Trim(ToLowerCase(query)))
        /\ municipality = << >> \/ preschools[r].Kommun = municipality
        /\ type = "" \/ preschools[r].Huvudman = type
  IN SelectSeq(AllRefs, Pass)

\* C3: after any sequence of search and filter-change actions the filtered
\* view is the facilities matching the most recent search text that pass the
\* municipality and operator-type values now set (an empty value passes all).
C3_ViewIsSearchAndFilters ==
  filteredPreschools = Matching(lastQuery, municipalityFilter, typeFilter)

\* C4 as stated: a search with an empty or whitespace-only query makes the
\* filtered view the whole catalog in catalog order, whatever the dropdowns
\* hold and whatever search or proximity query came before.
C4_BlankSearchShowsCatalog ==
  (lastOp.op = "performSearch" /\ Trim(lastOp.query) = << >>)
    => filteredPreschools = AllRefs

\* C4, amended: a search with an empty or whitespace-only query makes the
\* filtered view the catalog facilities that pass the municipality and
\* operator-type values now set, in catalog order, whatever search or
\* proximity query came before; it is the whole catalog when both dropdowns
\* are empty.
C4_BlankSearchShowsFiltered ==
  (lastOp.op = "performSearch" /\ Trim(lastOp.query) = << >>)
    => LET Pass(r) ==
             /\ municipalityFilter = << >> \/ preschools[r].Kommun = municipalityFilter
             /\ typeFilter = "" \/ preschools[r].Huvudman = typeFilter
       IN /\ filteredPreschools = SelectSeq(AllRefs, Pass)
          /\ (municipalityFilter = << >> /\ typeFilter = "")
               => filteredPreschools = AllRefs

\* C4's case: a whitespace-only search after a proximity query, with a
\* municipality set.
C4_Witness ==
  /\ lastOp.op = "performSearch"
  /\ lastOp.query = <<" ">>
  /\ municipalityFilter = <<"B">>
  /\ \E r \in Refs : distance[r] # None
  /\ filteredPreschools = << 2, 4, 6 >>

\* C5: at most one platform watch is active for the service, and it is the one
\* whose id the service holds.
C5_OneWatchHeld ==
  /\ Cardinality(watches) <= 1
  /\ \A w \in watches : watchId = Some(w)

\* C6: once stopWatching has returned, and until watchPosition is called
\* again, no watch callback runs (so none overwrites the last-known location).
C6_NoCallbackAfterStop ==
  lastOp.op = "watchUpdate" => watchId # None

\* The facilities with both coordinates present that lie within 10 km of loc.
PresentAndNear(loc) ==
  { r \in Refs :
      /\ preschools[r].Latitud # None
      /\ preschools[r].Longitud # None
      /\ calculateDistance(loc.lat, loc.lng,
                           preschools[r].Latitud[1], preschools[r].Longitud[1]) <= 10 }

\* C7: when a one-shot location request resolves and the proximity query runs
\* (the map exists), the filtered view becomes exactly the catalog facilities
\* that have both coordinates and lie within the radius of the reported
\* position, whatever was searched or filtered before or while the request was
\* pending; no facility that lacks a coordinate is in it.
C7_ProximitySupersedes ==
  (lastOp.op = "locationSuccess" /\ map)
    => /\ { filteredPreschools[k] : k \in 1..Len(filteredPreschools) }
            = PresentAndNear(lastOp.position)
       /\ \A k \in 1..Len(filteredPreschools) :
            /\ preschools[filteredPreschools[k]].Latitud # None
            /\ preschools[filteredPreschools[k]].Longitud # None

\* C8: after findNearbyPreschools(r) has run from the location held, every
\* facility of the filtered view stores its distance from that location, the
\* distance is at most r, the view is in non-decreasing distance with equal
\* distances in catalog order, and a negative r leaves the view empty.
C8_NearbySorted ==
  (lastOp.op = "findNearbyPreschools" /\ lastOp.ran)
    => LET view == filteredPreschools
           origin == userLocation[1]
       IN /\ \A k \in 1..Len(view) :
               /\ distance[view[k]] = Some(DistanceFrom(origin, view[k]))
               /\ distance[view[k]][1] <= lastOp.radius
          /\ \A k \in 1..(Len(view) - 1) :
               \/ distance[view[k]][1] < distance[view[k + 1]][1]
               \/ /\ distance[view[k]][1] = distance[view[k + 1]][1]
                  /\ view[k] < view[k + 1]
          /\ lastOp.radius < 0 => view = << >>

\* C8's case: a proximity query whose result holds two facilities at the same
\* distance and is not in catalog order.
C8_Witness ==
  /\ lastOp.op = "findNearbyPreschools"
  /\ lastOp.ran
  /\ \E k \in 1..(Len(filteredPreschools) - 1) :
       distance[filteredPreschools[k]] = distance[filteredPreschools[k + 1]]
  /\ \E k \in 1..(Len(filteredPreschools) - 1) :
       filteredPreschools[k] > filteredPreschools[k + 1]

\* C9: of a burst of input events, each arriving while the timer of the one
\* before is pending, only the last has a timer pending; the debounced search
\* has run once for every burst that is over and not yet for the one under
\* way; and when it runs, it runs for the last input event, no sooner than
\* the quiet period after it, with the text the box then holds.
C9_DebounceOncePerBurst ==
  /\ Cardinality(timers) <= 1
  /\ \A t \in timers : t.id = keys
  /\ fires = bursts - (IF timers = {} THEN 0 ELSE 1)
  /\ lastOp.op = "later"
       => /\ lastOp.id = keys
          /\ lastOp.elapsed >= DebounceWait
          /\ lastOp.query = searchInput
          /\ lastQuery = searchInput

\* C9's case: a burst of three input events has ended in one debounced search.
C9_Witness ==
  /\ lastOp.op = "later"
  /\ keys = 3
  /\ bursts = 1
  /\ fires = 1

\* C10: a step in which a one-shot location request fails changes neither the
\* filtered view, nor the stored distances, nor the comparison set, nor the
\* last-known location, and issues no request; requests are issued by clicks
\* on the location button only.
C10_FailureChangesNothing ==
  /\ [][ lastOp'.op = "locationError"
           => /\ filteredPreschools' = filteredPreschools
              /\ distance' = distance
              /\ selectedPreschools' = selectedPreschools
              /\ userLocation' = userLocation
              /\ issued' = issued ]_vars
  /\ [][ issued' # issued => lastOp'.op = "requestLocation" ]_vars

\* C10's case: a request timed out after an earlier one had succeeded, with a
\* facility in the comparison set.
C10_Witness ==
  /\ lastOp.op = "locationError"
  /\ lastOp.kind = "TIMEOUT"
  /\ issued = 2
  /\ userLocation # None
  /\ filteredPreschools # AllRefs
  /\ selectedPreschools # << >>

\* The references an array holds.
Members(arr) == { arr[k] : k \in 1..Len(arr) }

\* C11: in every state reached by load, search, filter changes, proximity
\* queries and comparison adds and removes, every facility of the filtered
\* view and every facility of the comparison set is in the catalog array, and
\* the catalog array holds the facilities it was loaded with, in that order.
C11_CatalogKept ==
  /\ Members(filteredPreschools) \subseteq Members(catalog)
  /\ Members(selectedPreschools) \subseteq Members(catalog)
  /\ catalog = AllRefs

\* C11's case: a proximity query has put the view in an order other than the
\* catalog's and written distances, with a facility under comparison.
C11_Witness ==
  /\ lastOp.op = "findNearbyPreschools"
  /\ lastOp.ran
  /\ \E k \in 1..(Len(filteredPreschools) - 1) :
       filteredPreschools[k] > filteredPreschools[k + 1]
  /\ \E r \in Refs : distance[r] # None
  /\ selectedPreschools = << 4 >>

=============================================================================
